---- MODULE Spec2Model ----
(***************************************************************************)
(* Q&A orchestration of qaAgent (src/app.py): the parallel run             *)
(* QAApp._run_parallel_qa_only_with_progress, the per-section task         *)
(* _process_section_async / _process_section_internal, the follow-up loop  *)
(* _handle_followup_questions_async and the complexity evaluator           *)
(* _evaluate_answer_complexity.                                            *)
(*                                                                         *)
(* Section indices are 0-based as in the code.  Python lists are           *)
(* sequences, so qa_pairs[p] here is qa_pairs[p-1] in the code.            *)
(* Scores and thresholds are in tenths (5 stands for 0.5).                 *)
(* Every await of orchestrator.single_agent_invoke is one Gateway call in  *)
(* flight; the code between two awaits runs without interruption, as in    *)
(* asyncio.                                                                *)
(***************************************************************************)
EXTENDS Integers, Sequences, FiniteSets, TLC

\* ---------------------------------------------------------------- bounds
MaxSectionsWide == 6
MaxSectionsDeep == 1
MaxSectionsFair == 5
MaxFollowups == 3
MaxResponse == 30
MaxSectionsRerun == 2
MaxCalls == 3
MaxQaPairs == 1
MaxEntries == 2

\* ------------------------------------------------------ program constants
SemaphoreSize == 3
DefaultScore == 5
BatchSize == 5
ScoreMin == 0
ScoreMax == 10
DisabledThreshold == 5
DisabledMaxFollowups == 0
DefaultThreshold == 6
DefaultMaxFollowups == 1

\* ------------------------------------------------------------ input sets
Thresholds == {5, 6}
NumericResponses == {-3, 5, 14}
EvalResponses ==
    {[kind |-> "number", value |-> v] : v \in NumericResponses}
    \cup {[kind |-> "junk", value |-> 0], [kind |-> "error", value |-> 0]}
KeywordLists == {<<>>, <<"alpha", "beta">>}

\* what the evaluator's Gateway call can give when the evaluator is examined
\* on its own: a text float() reads as a number (in tenths, beyond both ends
\* of the range), the text "nan", a text float() rejects, or an error
EvaluatorInputs ==
    {[kind |-> "number", value |-> v] : v \in -MaxResponse .. MaxResponse}
    \cup {[kind |-> "nan", value |-> 0]}
    \cup {[kind |-> "junk", value |-> 0], [kind |-> "error", value |-> 0]}

NoResponse == [kind |-> "none", value |-> 0]

\* no run of this QAApp instance has returned yet
NoRun == [returned |-> FALSE]

NoKeyword == "None"
NoText == <<>>
NoScore == -1

VARIABLES
    sections,           \* number of sections returned by _split_document
    enable_followup,    \* processing_settings['enable_followup']
    followup_threshold, \* processing_settings['followup_threshold']
    max_followups,      \* processing_settings['max_followups']
    target_keywords,    \* processing_settings['target_keywords']
    pc,                 \* position of _run_parallel_qa_only_with_progress
    section_info,       \* list of {section_index, target_keyword}
    semaphore,          \* free slots of asyncio.Semaphore(3)
    task,               \* per section: position of its Section Task
    section_qa_pairs,   \* per section: local list of _process_section_internal
    followup_pairs,     \* per section: local list of the follow-up loop
    followup_count,     \* per section: loop variable of the follow-up loop
    complexity_score,   \* per section: score of the main answer
    failed,             \* per section: the except of the task caught an error
    raised,             \* per section: kinds of Gateway calls that raised
    score_met,          \* per section: did each score meet the threshold
    attempts,           \* per section: entries into _process_section_internal
    calls,              \* per section: Gateway calls issued, by kind
    results,            \* what asyncio.gather returned
    completed_count,
    qa_pairs,
    progress,           \* calls made to the progress sink, in order
    session_qa,         \* st.session_state Q&A list
    complexity_response, \* evaluator on its own: what its Gateway call gave
    evaluated_score,    \* evaluator on its own: the value it returned
    question_prompt,    \* per section: what the main question prompt holds
    current_answer,     \* per section: local of the follow-up loop
    followup_prompts,   \* per section: what each follow-up question prompt
                        \* held, in the order asked
    run,                \* which run of this QAApp instance this is: 1 or 2
    first_run,          \* what the first run returned and what its Gateway
                        \* calls gave, once a second run has been started
    runtime,            \* AgentOrchestrator.runtime
    runtime_state,      \* per InProcessRuntime: absent, started or stopped
    invoke,             \* per call of single_agent_invoke: its position
    stopping,           \* per call: the runtime whose stop_when_idle it awaits
    session_state,      \* st.session_state: the keys present and their values
    last_reset,         \* the session a reset_session that has just run
                        \* found
    handler             \* position of _start_processing or
                        \* _start_text_processing and how it was left

vars == <<sections, enable_followup, followup_threshold, max_followups,
          target_keywords, pc, section_info, semaphore, task,
          section_qa_pairs, followup_pairs, followup_count, complexity_score,
          failed, raised, score_met, attempts, calls, results,
          completed_count, qa_pairs,
          progress, session_qa, complexity_response, evaluated_score,
          question_prompt, current_answer, followup_prompts,
          run, first_run, runtime, runtime_state, invoke, stopping,
          session_state, last_reset, handler>>

config == <<sections, enable_followup, followup_threshold, max_followups,
            target_keywords>>

\* the locals of a call of _evaluate_answer_complexity examined on its own
call_vars == <<complexity_response, evaluated_score>>

\* what the prompts of a section were built from
prompt_vars == <<question_prompt, current_answer, followup_prompts>>

\* what only the start of a second run changes
instance_vars == <<run, first_run>>

\* the shared AgentOrchestrator examined on its own
orchestrator_vars == <<runtime, runtime_state, invoke, stopping>>

\* the Streamlit session examined on its own
session_vars == <<session_state, last_reset, handler>>

\* what a run of the Q&A session leaves alone
aside_vars == <<orchestrator_vars, session_vars>>

Calls == 1 .. MaxCalls

\* every call creates at most one InProcessRuntime
Runtimes == 1 .. MaxCalls

\* self.runtime = None
NoRuntime == 0

Indices == 0 .. (sections - 1)

CallKinds == {"question", "answer", "evaluate",
              "followup_question", "followup_answer", "followup_evaluate"}

NoCalls == [k \in CallKinds |-> 0]

\* no prompt has been built
NoPrompt == [built |-> FALSE]

\* line 1562: the previous_qa every task is created with
PreviousQa == <<>>

\* lines 1321-1345: the context of the student prompt of a main question;
\* the section text stands for itself as the section's index
QuestionPrompt(i, previous_qa, target_keyword) ==
    [built |-> TRUE,
     previous_questions |->
         [p \in 1 .. Len(previous_qa) |-> previous_qa[p].question],
     current_section_content |-> i,
     document_content |-> "text_content",
     target_keyword |-> target_keyword]

\* lines 1424-1426: the follow-up question template with current_answer
\* put in
FollowupQuestionPrompt(answer) ==
    [template |-> "followup_question_prompt", current_answer |-> answer]

\* ------------------------------------------------------- pure functions

\* max(0.0, min(1.0, score))
Min(a, b) == IF a < b THEN a ELSE b
Max(a, b) == IF a > b THEN a ELSE b
\* mutant: the lower end of the range is not enforced
ClampAbove(score) == Min(ScoreMax, score)

Clamp(score) == Max(ScoreMin, Min(ScoreMax, score))

\* _evaluate_answer_complexity: the Gateway response is a number, a text
\* float() rejects ("junk"), or the call raised ("error")
\* mutant: an unreadable response or a Gateway error gives the lowest score
EvaluateAnswerComplexityLowest(response) ==
    IF response.kind = "number" THEN Clamp(response.value)
    ELSE IF response.kind = "nan" THEN Max(ScoreMin, ScoreMax)
    ELSE ScoreMin

\* float("nan") is a number for which every comparison is false, so
\* min(1.0, nan) keeps its first argument 1.0 and max(0.0, 1.0) is 1.0
EvaluateAnswerComplexity(response) ==
    IF response.kind = "number" THEN Clamp(response.value)
    ELSE IF response.kind = "nan" THEN Max(ScoreMin, ScoreMax)
    ELSE DefaultScore

\* mutant: every score leads to the follow-up loop
MeetsThresholdAlways(score, threshold) == TRUE

\* mutant: the comparison is turned round
MeetsThresholdInverted(score, threshold) == score <= threshold

\* if complexity_score >= followup_threshold
MeetsThreshold(score, threshold) == score >= threshold

\* mutant: a score equal to the threshold ends the loop
BelowThresholdOrEqual(score, threshold) == score <= threshold

\* if new_complexity < threshold: break
BelowThreshold(score, threshold) == score < threshold

\* mutant: the loop runs once more than max_followups allows
LoopContinuesOnceMore(count, maxf) == count + 1 <= maxf

\* for followup_count in range(max_followups): does the loop run at all
EntersLoop(maxf) == 0 < maxf

\* mutant: the loop goes on for as long as the scores meet the threshold
LoopContinuesUnbounded(count, maxf) == TRUE

\* for followup_count in range(max_followups): is there a next iteration
LoopContinues(count, maxf) == count + 1 < maxf

\* mutant: a keyword handed out is not marked as used
RECURSIVE AssignKeywordsReusing(_, _, _, _)
AssignKeywordsReusing(i, n, kws, used) ==
    IF i >= n THEN <<>>
    ELSE LET available == SelectSeq(kws, LAMBDA kw : kw \notin used)
             kw == IF Len(kws) > 0 /\ Cardinality(used) < Len(kws)
                      /\ Len(available) > 0
                   THEN available[1] ELSE NoKeyword
         IN  <<[section_index |-> i, target_keyword |-> kw]>>
             \o AssignKeywordsReusing(i + 1, n, kws, used)

\* keyword assignment of the task-creation loop
RECURSIVE AssignKeywords(_, _, _, _)
AssignKeywords(i, n, kws, used) ==
    IF i >= n THEN <<>>
    ELSE LET available == SelectSeq(kws, LAMBDA kw : kw \notin used)
             kw == IF Len(kws) > 0 /\ Cardinality(used) < Len(kws)
                      /\ Len(available) > 0
                   THEN available[1] ELSE NoKeyword
         IN  <<[section_index |-> i, target_keyword |-> kw]>>
             \o AssignKeywords(i + 1, n, kws,
                               IF kw = NoKeyword THEN used ELSE used \cup {kw})

MainPair(i) ==
    [question |-> <<"question", i>>, answer |-> <<"answer", i>>,
     section |-> i, type |-> "main",
     followup_question |-> NoText, followup_answer |-> NoText,
     complexity_score |-> NoScore]

FollowupPair(i, count) ==
    [question |-> <<"followup_question", i, count + 1>>,
     answer |-> <<"followup_answer", i, count + 1>>,
     section |-> i, type |-> "followup", followup_count |-> count + 1]

\* lines 1286-1290: only the first follow-up is attached to the main pair
\* mutant: the last follow-up of the loop is attached
AttachFollowupLast(main, fps, score) ==
    IF Len(fps) > 0
    THEN [main EXCEPT !.followup_question = fps[Len(fps)].question,
                      !.followup_answer = fps[Len(fps)].answer,
                      !.complexity_score = score]
    ELSE main

\* lines 1285-1290: only followup_pairs[0] is attached to the main pair
AttachFollowup(main, fps, score) ==
    IF Len(fps) > 0
    THEN [main EXCEPT !.followup_question = fps[1].question,
                      !.followup_answer = fps[1].answer,
                      !.complexity_score = score]
    ELSE main

\* ------------------------------------------------------------- the run

\* The runs explored: many sections with follow-ups switched off (the
\* settings the sidebar produces then), the sidebar's default follow-up
\* settings with up to one section more than the semaphore has slots, and
\* few sections with every follow-up setting.
Settings(ns, enables, thresholds, maxfs, keywords) ==
    [sections : ns, enable_followup : enables, followup_threshold : thresholds,
     max_followups : maxfs, target_keywords : keywords]

WideSettings ==
    Settings(0 .. MaxSectionsWide, {FALSE}, {DisabledThreshold},
             {DisabledMaxFollowups}, KeywordLists)

DefaultSettings ==
    Settings(0 .. SemaphoreSize + 1, {TRUE}, {DefaultThreshold},
             {DefaultMaxFollowups}, {<<>>})

DeepSettings ==
    Settings(1 .. MaxSectionsDeep, BOOLEAN, Thresholds, 0 .. MaxFollowups,
             {<<>>})

ProcessingSettings == WideSettings \cup DefaultSettings \cup DeepSettings

\* the runs explored for the eventual properties
FairSettings ==
    Settings(0 .. MaxSectionsFair, {FALSE}, {DisabledThreshold},
             {DisabledMaxFollowups}, {<<>>})
    \cup DeepSettings

\* ----------------------------------------------------- the SessionManager
\* session_manager.py lines 11-29: the values of a new session
InitialValues ==
    [initialized |-> TRUE, document_uploaded |-> FALSE,
     processing |-> FALSE, qa_completed |-> FALSE,
     current_step |-> "upload", document_data |-> {}, qa_turns |-> 10,
     qa_pairs |-> <<>>, summary |-> "", final_report |-> "",
     selected_tab |-> 0, show_progress |-> FALSE, progress_text |-> ""]

\* st.session_state with no key
EmptySession == [key \in {} |-> TRUE]

\* assignments st.session_state.<key> = <value>, one per field of values
Assign(state, values) ==
    [key \in DOMAIN state \cup DOMAIN values |->
        IF key \in DOMAIN values THEN values[key] ELSE state[key]]

\* st.session_state.get(key, default)
Get(state, key, default) ==
    IF key \in DOMAIN state THEN state[key] ELSE default

\* session_manager.py lines 9-29
initialize_session(state) ==
    IF "initialized" \notin DOMAIN state
    THEN Assign(state, InitialValues)
    ELSE state

\* session_manager.py lines 33-36
set_document_data(state, data) ==
    Assign(state, [document_data |-> data, document_uploaded |-> TRUE])

\* session_manager.py lines 44-46
set_qa_turns(state, turns) == Assign(state, [qa_turns |-> turns])

\* session_manager.py lines 49-51
set_processing_settings(state, settings) ==
    Assign(state, [processing_settings |-> settings])

\* session_manager.py lines 72-76
start_processing(state) ==
    Assign(state, [processing |-> TRUE, current_step |-> "processing",
                   show_progress |-> TRUE])

\* session_manager.py lines 79-82
stop_processing(state) ==
    Assign(state, [processing |-> FALSE, show_progress |-> FALSE])

\* session_manager.py lines 85-87
set_step(state, step) == Assign(state, [current_step |-> step])

\* session_manager.py lines 100-102
set_summary(state, summary) == Assign(state, [summary |-> summary])

\* session_manager.py lines 110-120
add_qa_pair(state, question, answer) ==
    LET present == IF "qa_pairs" \notin DOMAIN state
                   THEN Assign(state, [qa_pairs |-> <<>>])
                   ELSE state
        qa_pair == [timestamp |-> "now", question |-> question,
                    answer |-> answer]
    IN  Assign(present, [qa_pairs |-> Append(present.qa_pairs, qa_pair)])

\* session_manager.py lines 128-132
set_final_report(state, report) ==
    Assign(state, [final_report |-> report, qa_completed |-> TRUE,
                   current_step |-> "completed"])

\* session_manager.py lines 140-143
set_progress(state, text, show) ==
    Assign(state, [progress_text |-> text, show_progress |-> show])

\* session_manager.py lines 172-174
set_selected_tab(state, tab_index) ==
    Assign(state, [selected_tab |-> tab_index])

\* session_manager.py lines 161-162
KeysToRemove(state) == DOMAIN state \ {"initialized"}

\* mutant: the Q&A pairs are kept as well
reset_session_keeping_qa_pairs(state) ==
    initialize_session([key \in DOMAIN state \cap {"initialized", "qa_pairs"}
                           |-> state[key]])

\* session_manager.py lines 158-169: every key but 'initialized' is
\* deleted, then initialize_session is called
reset_session(state) ==
    initialize_session([key \in DOMAIN state \ KeysToRemove(state)
                           |-> state[key]])

\* session_manager.py lines 54-64: the default of get_processing_settings
DefaultProcessingSettings ==
    [qa_turns |-> 10, student_model |-> "gpt-5-mini",
     teacher_model |-> "gpt-5", summarizer_model |-> "gpt-5-nano",
     enable_followup |-> TRUE, followup_threshold |-> DefaultThreshold,
     max_followups |-> 3]

\* session_manager.py lines 39-41, 54-69, 90-97, 105-107, 123-125,
\* 135-137, 146-155, 177-192: what every getter returns
Getters(state) ==
    [get_document_data |-> Get(state, "document_data", {}),
     get_processing_settings |->
         Get(state, "processing_settings", DefaultProcessingSettings),
     get_qa_turns |-> Get(state, "qa_turns", 10),
     get_step |-> Get(state, "current_step", "upload"),
     is_processing |-> Get(state, "processing", FALSE),
     get_summary |-> Get(state, "summary", ""),
     get_qa_pairs |-> Get(state, "qa_pairs", <<>>),
     get_final_report |-> Get(state, "final_report", ""),
     is_qa_completed |-> Get(state, "qa_completed", FALSE),
     get_progress |-> <<Get(state, "show_progress", FALSE),
                        Get(state, "progress_text", "")>>,
     get_selected_tab |-> Get(state, "selected_tab", 0),
     get_session_info |->
         [document_uploaded |-> Get(state, "document_uploaded", FALSE),
          processing |-> Get(state, "processing", FALSE),
          qa_completed |-> Get(state, "qa_completed", FALSE),
          current_step |-> Get(state, "current_step", "upload"),
          qa_pairs_count |-> Len(Get(state, "qa_pairs", <<>>)),
          has_summary |-> Get(state, "summary", "") # "",
          has_final_report |-> Get(state, "final_report", "") # ""]]

\* no reset_session has just run
NoReset == [called |-> FALSE]

\* neither handler has been entered
NoHandler ==
    [name |-> "none", pc |-> "idle", quick_mode |-> FALSE,
     raised_at |-> "none", left_by |-> "none", entries |-> 0]

\* the state before _run_parallel_qa_only_with_progress is entered
Start(settings) ==
    /\ \E s \in settings :
          /\ sections = s.sections
          /\ enable_followup = s.enable_followup
          /\ followup_threshold = s.followup_threshold
          /\ max_followups = s.max_followups
          /\ target_keywords = s.target_keywords
    /\ pc = "start"
    /\ section_info = <<>>
    /\ semaphore = 0
    /\ task = [i \in Indices |-> "none"]
    /\ section_qa_pairs = [i \in Indices |-> <<>>]
    /\ followup_pairs = [i \in Indices |-> <<>>]
    /\ followup_count = [i \in Indices |-> 0]
    /\ complexity_score = [i \in Indices |-> NoScore]
    /\ failed = [i \in Indices |-> FALSE]
    /\ raised = [i \in Indices |-> {}]
    /\ score_met = [i \in Indices |-> <<>>]
    /\ attempts = [i \in Indices |-> 0]
    /\ calls = [i \in Indices |-> NoCalls]
    /\ results = <<>>
    /\ completed_count = 0
    /\ qa_pairs = <<>>
    /\ progress = <<>>
    /\ session_qa = <<>>
    /\ complexity_response = NoResponse
    /\ evaluated_score = NoScore
    /\ question_prompt = [i \in Indices |-> NoPrompt]
    /\ current_answer = [i \in Indices |-> NoText]
    /\ followup_prompts = [i \in Indices |-> <<>>]
    /\ run = 1
    /\ first_run = NoRun
    /\ runtime = NoRuntime
    /\ runtime_state = [r \in Runtimes |-> "absent"]
    /\ invoke = [c \in Calls |-> "idle"]
    /\ stopping = [c \in Calls |-> NoRuntime]
    /\ session_state = initialize_session(EmptySession)
    /\ last_reset = NoReset
    /\ handler = NoHandler

Init == Start(ProcessingSettings)

FairInit == Start(FairSettings)

\* mutant: the set of used keywords outlives the run
CreateTasksKeepsUsedKeywords ==
    /\ pc = "start"
    /\ pc' = "gather"
    /\ section_info' =
           AssignKeywords(0, sections, target_keywords,
                          {section_info[p].target_keyword :
                               p \in 1 .. Len(section_info)} \ {NoKeyword})
    /\ semaphore' = SemaphoreSize
    /\ task' = [i \in Indices |-> "pending"]
    /\ qa_pairs' = <<>>
    /\ completed_count' = 0
    /\ UNCHANGED <<config, raised, score_met, section_qa_pairs,
                   followup_pairs, followup_count, complexity_score, failed,
                   attempts, calls, results, progress, session_qa,
                   call_vars, aside_vars, instance_vars, prompt_vars>>

\* lines 1485-1566: keyword assignment, semaphore and one coroutine per
\* section; lines 1542-1544 reset the accumulators
CreateTasks ==
    /\ pc = "start"
    /\ pc' = "gather"
    /\ section_info' = AssignKeywords(0, sections, target_keywords, {})
    /\ semaphore' = SemaphoreSize
    /\ task' = [i \in Indices |-> "pending"]
    /\ qa_pairs' = <<>>
    /\ completed_count' = 0
    /\ UNCHANGED <<config, raised, score_met, section_qa_pairs,
                   followup_pairs, followup_count, complexity_score, failed,
                   attempts, calls, results, progress, session_qa,
                   call_vars, aside_vars, instance_vars, prompt_vars>>

\* what the Section Tasks leave alone
run_vars == <<config, pc, section_info, results, completed_count, qa_pairs,
              progress, session_qa, call_vars, aside_vars, instance_vars>>

\* mutant: a failing task cancels the tasks that have not started yet
TaskReturnsCancelsPending(i, pairs, err) ==
    /\ task' = [j \in Indices |->
                   IF j = i \/ (err /\ task[j] = "pending")
                   THEN "done" ELSE task[j]]
    /\ section_qa_pairs' = [section_qa_pairs EXCEPT ![i] = pairs]
    /\ failed' = [failed EXCEPT ![i] = err]
    /\ semaphore' = semaphore + 1
    /\ complexity_score' = [complexity_score EXCEPT ![i] = NoScore]
    /\ followup_count' = [followup_count EXCEPT ![i] = 0]
    /\ current_answer' = [current_answer EXCEPT ![i] = NoText]
    /\ UNCHANGED <<calls, question_prompt, followup_prompts>>

\* mutant: the slot is not released when the task ends by an error
TaskReturnsKeepsSlotOnError(i, pairs, err) ==
    /\ task' = [task EXCEPT ![i] = "done"]
    /\ section_qa_pairs' = [section_qa_pairs EXCEPT ![i] = pairs]
    /\ failed' = [failed EXCEPT ![i] = err]
    /\ semaphore' = IF err THEN semaphore ELSE semaphore + 1
    /\ complexity_score' = [complexity_score EXCEPT ![i] = NoScore]
    /\ followup_count' = [followup_count EXCEPT ![i] = 0]
    /\ current_answer' = [current_answer EXCEPT ![i] = NoText]
    /\ UNCHANGED <<calls, question_prompt, followup_prompts>>

\* the task leaves through the async with (lines 1244-1247, 1295): the slot
\* is released, the coroutine returns section_qa_pairs and its other locals
\* are gone
TaskReturns(i, pairs, err) ==
    /\ task' = [task EXCEPT ![i] = "done"]
    /\ section_qa_pairs' = [section_qa_pairs EXCEPT ![i] = pairs]
    /\ failed' = [failed EXCEPT ![i] = err]
    /\ semaphore' = semaphore + 1
    /\ complexity_score' = [complexity_score EXCEPT ![i] = NoScore]
    /\ followup_count' = [followup_count EXCEPT ![i] = 0]
    /\ current_answer' = [current_answer EXCEPT ![i] = NoText]
    /\ UNCHANGED <<calls, question_prompt, followup_prompts>>

\* a deterministic Gateway: in a second run the call of this kind and
\* ordinal of section i raises exactly if it raised in the first run
SameOutcome(i, kind, ok) ==
    run = 2 =>
        (ok <=> ~(/\ kind \in first_run.raised[i]
                  /\ calls[i][kind] = first_run.calls[i][kind]))

\* a deterministic Gateway: in a second run the evaluation of this ordinal
\* of section i is on the same side of the threshold as in the first run
SameScore(i, score) ==
    (run = 2 /\ Len(score_met[i]) < Len(first_run.score_met[i])) =>
        ((score >= followup_threshold)
            <=> first_run.score_met[i][Len(score_met[i]) + 1])

\* the Gateway call of the given kind raised, or returned
Outcome(i, kind, ok) ==
    /\ kind \notin {"evaluate", "followup_evaluate"} => SameOutcome(i, kind, ok)
    /\ raised' = IF ok THEN raised ELSE [raised EXCEPT ![i] = @ \cup {kind}]

\* the evaluator returned a score: did it meet the threshold of the run
Scored(i, score) ==
    /\ SameScore(i, score)
    /\ score_met' =
           [score_met EXCEPT ![i] = Append(@, score >= followup_threshold)]

\* the task goes on to its next Gateway call
NextCall(i, kind) ==
    /\ task' = [task EXCEPT ![i] = kind]
    /\ calls' = [calls EXCEPT ![i][kind] = @ + 1]
    /\ UNCHANGED <<semaphore, failed, prompt_vars>>

\* lines 1372-1378 and 1397: the loop goes round with current_answer set
\* to the given answer and asks the follow-up question built from it
AsksFollowup(i, answer) ==
    /\ task' = [task EXCEPT ![i] = "followup_question"]
    /\ calls' = [calls EXCEPT ![i]["followup_question"] = @ + 1]
    /\ current_answer' = [current_answer EXCEPT ![i] = answer]
    /\ followup_prompts' =
           [followup_prompts EXCEPT
                ![i] = Append(@, FollowupQuestionPrompt(answer))]
    /\ UNCHANGED <<semaphore, failed, question_prompt>>

\* mutant: the task does not wait for a free slot
AcquireWithoutSlot(i) ==
    /\ pc = "gather"
    /\ task[i] = "pending"
    /\ \A j \in Indices : j < i => task[j] # "pending"
    /\ semaphore' = semaphore - 1
    /\ task' = [task EXCEPT ![i] = "question"]
    /\ attempts' = [attempts EXCEPT ![i] = @ + 1]
    /\ calls' = [calls EXCEPT ![i]["question"] = @ + 1]
    /\ question_prompt' =
           [question_prompt EXCEPT
                ![i] = QuestionPrompt(i, PreviousQa,
                                      section_info[i + 1].target_keyword)]
    /\ UNCHANGED <<run_vars, raised, score_met, section_qa_pairs,
                   followup_pairs, followup_count, complexity_score, failed,
                   current_answer, followup_prompts>>

\* async with semaphore (line 1244), then the question call (line 1264);
\* gather starts the tasks in section order and the semaphore wakes its
\* waiters first-in first-out
Acquire(i) ==
    /\ pc = "gather"
    /\ task[i] = "pending"
    /\ \A j \in Indices : j < i => task[j] # "pending"
    /\ semaphore > 0
    /\ semaphore' = semaphore - 1
    /\ task' = [task EXCEPT ![i] = "question"]
    /\ attempts' = [attempts EXCEPT ![i] = @ + 1]
    /\ calls' = [calls EXCEPT ![i]["question"] = @ + 1]
    /\ question_prompt' =
           [question_prompt EXCEPT
                ![i] = QuestionPrompt(i, PreviousQa,
                                      section_info[i + 1].target_keyword)]
    /\ UNCHANGED <<run_vars, raised, score_met, section_qa_pairs,
                   followup_pairs, followup_count, complexity_score, failed,
                   current_answer, followup_prompts>>

\* mutant: a question call that raised is made once more
QuestionReturnsRetries(i, ok) ==
    /\ task[i] = "question"
    /\ Outcome(i, "question", ok)
    /\ IF ok
       THEN /\ NextCall(i, "answer")
            /\ UNCHANGED <<section_qa_pairs, complexity_score, followup_count>>
       ELSE IF calls[i]["question"] < 2
            THEN /\ NextCall(i, "question")
                 /\ UNCHANGED <<section_qa_pairs, complexity_score,
                                followup_count>>
            ELSE TaskReturns(i, section_qa_pairs[i], TRUE)
    /\ UNCHANGED <<run_vars, score_met, followup_pairs, attempts>>

\* line 1264: the question call returns or raises
QuestionReturns(i, ok) ==
    /\ task[i] = "question"
    /\ Outcome(i, "question", ok)
    /\ IF ok
       THEN /\ NextCall(i, "answer")
            /\ UNCHANGED <<section_qa_pairs, complexity_score, followup_count>>
       ELSE TaskReturns(i, section_qa_pairs[i], TRUE)
    /\ UNCHANGED <<run_vars, score_met, followup_pairs, attempts>>

\* mutant: the answer is evaluated whether or not follow-ups are enabled
EvaluatesAnswerAlways(enable) == TRUE

\* line 1279: if enable_followup
EvaluatesAnswer(enable) == enable

\* lines 1267-1280: the answer call returns or raises
AnswerReturns(i, ok) ==
    /\ task[i] = "answer"
    /\ Outcome(i, "answer", ok)
    /\ IF ~ok
       THEN TaskReturns(i, section_qa_pairs[i], TRUE)
       ELSE IF EvaluatesAnswer(enable_followup)
            THEN /\ NextCall(i, "evaluate")
                 /\ section_qa_pairs' =
                        [section_qa_pairs EXCEPT ![i] = Append(@, MainPair(i))]
                 /\ UNCHANGED <<complexity_score, followup_count>>
            ELSE TaskReturns(i, Append(section_qa_pairs[i], MainPair(i)),
                             FALSE)
    /\ UNCHANGED <<run_vars, score_met, followup_pairs, attempts>>

\* _handle_followup_questions_async returned fps: lines 1286-1295
FollowupsReturn(i, fps, score) ==
    TaskReturns(i, <<AttachFollowup(section_qa_pairs[i][1], fps, score)>>,
                FALSE)

\* lines 1280-1284 and 1371-1378: score of the main answer
EvaluateReturns(i, response) ==
    /\ task[i] = "evaluate"
    /\ Outcome(i, "evaluate", response.kind # "error")
    /\ LET score == EvaluateAnswerComplexity(response) IN
       /\ Scored(i, score)
       /\ IF MeetsThreshold(score, followup_threshold)
          THEN IF EntersLoop(max_followups)
               THEN /\ AsksFollowup(i, section_qa_pairs[i][1].answer)
                    /\ complexity_score' =
                           [complexity_score EXCEPT ![i] = score]
                    /\ UNCHANGED <<section_qa_pairs, followup_count>>
               ELSE FollowupsReturn(i, <<>>, score)
          ELSE TaskReturns(i, section_qa_pairs[i], FALSE)
    /\ UNCHANGED <<run_vars, followup_pairs, attempts>>

\* lines 1378-1380 and 1399-1401
FollowupQuestionReturns(i, ok) ==
    /\ task[i] = "followup_question"
    /\ Outcome(i, "followup_question", ok)
    /\ IF ok
       THEN /\ NextCall(i, "followup_answer")
            /\ UNCHANGED <<section_qa_pairs, complexity_score, followup_count>>
       ELSE FollowupsReturn(i, followup_pairs[i], complexity_score[i])
    /\ UNCHANGED <<run_vars, score_met, followup_pairs, attempts>>

\* mutant: the next follow-up question is asked without waiting for the
\* evaluation of the follow-up answer
FollowupAnswerReturnsUnevaluated(i, ok) ==
    /\ task[i] = "followup_answer"
    /\ Outcome(i, "followup_answer", ok)
    /\ IF ok /\ LoopContinues(followup_count[i], max_followups)
       THEN /\ AsksFollowup(i, FollowupPair(i, followup_count[i]).answer)
            /\ followup_pairs' =
                   [followup_pairs EXCEPT
                        ![i] = Append(@, FollowupPair(i, followup_count[i]))]
            /\ followup_count' = [followup_count EXCEPT ![i] = @ + 1]
            /\ UNCHANGED <<section_qa_pairs, complexity_score>>
       ELSE /\ FollowupsReturn(i, followup_pairs[i], complexity_score[i])
            /\ UNCHANGED followup_pairs
    /\ UNCHANGED <<run_vars, score_met, attempts>>

\* lines 1380-1393 and 1399-1401
FollowupAnswerReturns(i, ok) ==
    /\ task[i] = "followup_answer"
    /\ Outcome(i, "followup_answer", ok)
    /\ IF ok
       THEN /\ NextCall(i, "followup_evaluate")
            /\ followup_pairs' =
                   [followup_pairs EXCEPT
                        ![i] = Append(@, FollowupPair(i, followup_count[i]))]
            /\ UNCHANGED <<section_qa_pairs, complexity_score, followup_count>>
       ELSE /\ FollowupsReturn(i, followup_pairs[i], complexity_score[i])
            /\ UNCHANGED followup_pairs
    /\ UNCHANGED <<run_vars, score_met, attempts>>

\* mutant: current_answer is not moved on to the follow-up answer
FollowupEvaluateReturnsKeepsAnswer(i, response) ==
    /\ task[i] = "followup_evaluate"
    /\ Outcome(i, "followup_evaluate", response.kind # "error")
    /\ LET new_complexity == EvaluateAnswerComplexity(response) IN
       /\ Scored(i, new_complexity)
       /\ IF /\ ~BelowThreshold(new_complexity, followup_threshold)
             /\ LoopContinues(followup_count[i], max_followups)
          THEN /\ AsksFollowup(i, current_answer[i])
               /\ followup_count' = [followup_count EXCEPT ![i] = @ + 1]
               /\ UNCHANGED <<section_qa_pairs, complexity_score>>
          ELSE FollowupsReturn(i, followup_pairs[i], complexity_score[i])
    /\ UNCHANGED <<run_vars, followup_pairs, attempts>>

\* lines 1393-1397 and the loop header 1374
FollowupEvaluateReturns(i, response) ==
    /\ task[i] = "followup_evaluate"
    /\ Outcome(i, "followup_evaluate", response.kind # "error")
    /\ LET new_complexity == EvaluateAnswerComplexity(response) IN
       /\ Scored(i, new_complexity)
       /\ IF /\ ~BelowThreshold(new_complexity, followup_threshold)
             /\ LoopContinues(followup_count[i], max_followups)
          THEN /\ AsksFollowup(i, followup_pairs[i][followup_count[i] + 1]
                                        .answer)
               /\ followup_count' = [followup_count EXCEPT ![i] = @ + 1]
               /\ UNCHANGED <<section_qa_pairs, complexity_score>>
          ELSE FollowupsReturn(i, followup_pairs[i], complexity_score[i])
    /\ UNCHANGED <<run_vars, followup_pairs, attempts>>

\* qa_data of lines 1586-1591
QaData(qa_pair) ==
    [question |-> qa_pair.question, answer |-> qa_pair.answer,
     followup_question |-> qa_pair.followup_question,
     followup_answer |-> qa_pair.followup_answer]

\* SessionManager.add_qa_pair_with_followup for every pair of a result
RECURSIVE add_qa_pair_with_followup(_, _)
add_qa_pair_with_followup(session, result) ==
    IF result = <<>> THEN session
    ELSE add_qa_pair_with_followup(Append(session, QaData(Head(result))),
                                   Tail(result))

\* mutant: the progress sink is called for every section with a result
BatchUpdateAlways(completed, total) == TRUE

\* line 1595
BatchUpdate(completed, total) ==
    completed % BatchSize = 0 \/ completed = total

\* mutant: a section without a result is not counted
CollectOneSkipsEmpty(st, result, total) ==
    LET completed == st.completed_count + 1 IN
    IF Len(result) > 0
    THEN [completed_count |-> completed,
          qa_pairs |-> st.qa_pairs \o result,
          session_qa |-> add_qa_pair_with_followup(st.session_qa, result),
          progress |-> IF BatchUpdate(completed, total)
                       THEN Append(st.progress, [completed |-> completed,
                                                 total |-> total])
                       ELSE st.progress]
    ELSE st

\* lines 1576-1607: one iteration of the result loop on the loop state
\* [completed_count, qa_pairs, session_qa, progress]
CollectOne(st, result, total) ==
    LET completed == st.completed_count + 1 IN
    IF Len(result) > 0
    THEN [completed_count |-> completed,
          qa_pairs |-> st.qa_pairs \o result,
          session_qa |-> add_qa_pair_with_followup(st.session_qa, result),
          progress |-> IF BatchUpdate(completed, total)
                       THEN Append(st.progress, [completed |-> completed,
                                                 total |-> total])
                       ELSE st.progress]
    ELSE [st EXCEPT !.completed_count = completed]

\* mutant: the results are walked from the last task to the first
RECURSIVE CollectFromLastFirst(_, _, _, _)
CollectFromLastFirst(st, res, i, total) ==
    IF i > Len(res) THEN st
    ELSE CollectFromLastFirst(CollectOne(st, res[Len(res) - i + 1], total),
                              res, i + 1, total)

\* line 1575: for i, result in enumerate(results)
RECURSIVE CollectFrom(_, _, _, _)
CollectFrom(st, res, i, total) ==
    IF i > Len(res) THEN st
    ELSE CollectFrom(CollectOne(st, res[i], total), res, i + 1, total)

\* mutant: the progress sink is called once more after the result loop
GatherReturnsFinalUpdate ==
    /\ pc = "gather"
    /\ \A i \in Indices : task[i] = "done"
    /\ LET res == [p \in 1 .. sections |-> section_qa_pairs[p - 1]]
           st == CollectFrom([completed_count |-> completed_count,
                              qa_pairs |-> qa_pairs,
                              session_qa |-> session_qa,
                              progress |-> progress], res, 1, sections)
       IN  /\ results' = res
           /\ completed_count' = st.completed_count
           /\ qa_pairs' = st.qa_pairs
           /\ session_qa' = st.session_qa
           /\ progress' = Append(st.progress,
                                 [completed |-> st.completed_count,
                                  total |-> sections])
    /\ pc' = "returned"
    /\ UNCHANGED <<config, raised, score_met, section_info, semaphore, task,
                   section_qa_pairs, followup_pairs, followup_count,
                   complexity_score, failed, attempts, calls, call_vars,
                   aside_vars, instance_vars, prompt_vars>>

\* lines 1573-1615: asyncio.gather returns once every task has returned;
\* the result loop has no await and runs to the return of qa_pairs
GatherReturns ==
    /\ pc = "gather"
    /\ \A i \in Indices : task[i] = "done"
    /\ LET res == [p \in 1 .. sections |-> section_qa_pairs[p - 1]]
           st == CollectFrom([completed_count |-> completed_count,
                              qa_pairs |-> qa_pairs,
                              session_qa |-> session_qa,
                              progress |-> progress], res, 1, sections)
       IN  /\ results' = res
           /\ completed_count' = st.completed_count
           /\ qa_pairs' = st.qa_pairs
           /\ session_qa' = st.session_qa
           /\ progress' = st.progress
    /\ pc' = "returned"
    /\ UNCHANGED <<config, raised, score_met, section_info, semaphore, task,
                   section_qa_pairs, followup_pairs, followup_count,
                   complexity_score, failed, attempts, calls, call_vars,
                   aside_vars, instance_vars, prompt_vars>>

Next ==
    \/ CreateTasks
    \/ \E i \in Indices : Acquire(i)
    \/ \E i \in Indices, ok \in BOOLEAN : QuestionReturns(i, ok)
    \/ \E i \in Indices, ok \in BOOLEAN : AnswerReturns(i, ok)
    \/ \E i \in Indices, r \in EvalResponses : EvaluateReturns(i, r)
    \/ \E i \in Indices, ok \in BOOLEAN : FollowupQuestionReturns(i, ok)
    \/ \E i \in Indices, ok \in BOOLEAN : FollowupAnswerReturns(i, ok)
    \/ \E i \in Indices, r \in EvalResponses : FollowupEvaluateReturns(i, r)
    \/ GatherReturns

Spec == Init /\ [][Next]_vars

\* every Gateway call returns or raises in the end and the event loop runs
\* whatever is ready
FairSpec == FairInit /\ [][Next]_vars /\ WF_vars(Next)

\* ------------------------------------------ two runs of one instance

\* the runs explored twice over
RerunSettings ==
    Settings(0 .. MaxSectionsRerun, {TRUE}, {DefaultThreshold},
             {DefaultMaxFollowups}, KeywordLists)

RerunInit == Start(RerunSettings)

\* _run_parallel_qa_only_with_progress is called again on the same QAApp
\* with the same document and settings: the coroutines of the first run and
\* their locals are gone; the session list and what the progress sink was
\* told stay
RunAgain ==
    /\ pc = "returned"
    /\ run = 1
    /\ run' = 2
    /\ first_run' = [returned |-> TRUE, qa_pairs |-> qa_pairs,
                     section_info |-> section_info, raised |-> raised,
                     calls |-> calls, score_met |-> score_met]
    /\ pc' = "start"
    /\ task' = [i \in Indices |-> "none"]
    /\ section_qa_pairs' = [i \in Indices |-> <<>>]
    /\ followup_pairs' = [i \in Indices |-> <<>>]
    /\ failed' = [i \in Indices |-> FALSE]
    /\ raised' = [i \in Indices |-> {}]
    /\ score_met' = [i \in Indices |-> <<>>]
    /\ attempts' = [i \in Indices |-> 0]
    /\ calls' = [i \in Indices |-> NoCalls]
    /\ question_prompt' = [i \in Indices |-> NoPrompt]
    /\ followup_prompts' = [i \in Indices |-> <<>>]
    /\ UNCHANGED current_answer
    /\ UNCHANGED <<config, section_info, semaphore, followup_count,
                   complexity_score, results, completed_count, qa_pairs,
                   progress, session_qa, call_vars, aside_vars>>

RerunNext == Next \/ RunAgain

RerunSpec == RerunInit /\ [][RerunNext]_vars

\* ------------------------------------- runs on settings out of range

\* lines 1466-1470 read the settings as they are given: a threshold below
\* 0.0 or above 1.0, or a negative max_followups
SettingsOutOfRange ==
    Settings(1 .. MaxSectionsDeep + 1, BOOLEAN, {ScoreMin - 1, ScoreMax + 1},
             {DefaultMaxFollowups}, {<<>>})
    \cup Settings(1 .. MaxSectionsDeep + 1, BOOLEAN, {DefaultThreshold},
                  {-1}, {<<>>})

OutOfRangeInit == Start(SettingsOutOfRange)

OutOfRangeSpec == OutOfRangeInit /\ [][Next]_vars

\* --------------------------------------------- the evaluator on its own

\* a call of _evaluate_answer_complexity outside a run
EvaluatorInit ==
    Start(Settings({0}, {TRUE}, {DefaultThreshold}, {DefaultMaxFollowups},
                   {<<>>}))

\* ------------------------------------------ calls on the SessionManager
\* what the calls on the SessionManager leave alone
manager_run_vars ==
    <<config, pc, section_info, semaphore, task, section_qa_pairs,
      followup_pairs, followup_count, complexity_score, failed, raised,
      score_met, attempts, calls, results, completed_count, qa_pairs,
      progress, session_qa, call_vars, instance_vars, prompt_vars,
      orchestrator_vars>>

\* a setter has been called on the session
SetterCalled(state) ==
    /\ session_state' = state
    /\ last_reset' = NoReset
    /\ UNCHANGED <<handler, manager_run_vars>>

\* the values the callers pass to the setters
DocumentData == {<<"text_content", "text">>}
QaTurns == {5}
Steps == {"qa"}

SetDocumentData ==
    SetterCalled(set_document_data(session_state, DocumentData))

SetQaTurns ==
    \E turns \in QaTurns : SetterCalled(set_qa_turns(session_state, turns))

StartProcessing == SetterCalled(start_processing(session_state))

StopProcessing == SetterCalled(stop_processing(session_state))

SetStep == \E step \in Steps : SetterCalled(set_step(session_state, step))

SetSummary == SetterCalled(set_summary(session_state, "summary"))

AddQaPair ==
    /\ Len(Get(session_state, "qa_pairs", <<>>)) < MaxQaPairs
    /\ SetterCalled(add_qa_pair(session_state, "question", "answer"))

SetFinalReport == SetterCalled(set_final_report(session_state, "report"))

SetProgress ==
    \E show \in BOOLEAN :
        SetterCalled(set_progress(session_state, "text", show))

SetSelectedTab == SetterCalled(set_selected_tab(session_state, 1))

\* session_manager.py lines 158-169
ResetSession ==
    /\ session_state' = reset_session(session_state)
    /\ last_reset' = [called |-> TRUE, found |-> session_state]
    /\ UNCHANGED <<handler, manager_run_vars>>

SessionNext ==
    \/ SetDocumentData
    \/ SetQaTurns
    \/ StartProcessing
    \/ StopProcessing
    \/ SetStep
    \/ SetSummary
    \/ AddQaPair
    \/ SetFinalReport
    \/ SetProgress
    \/ SetSelectedTab
    \/ ResetSession

\* ------------------------------------------- the shared AgentOrchestrator
\* what the calls on the orchestrator leave alone
session_run_vars ==
    <<config, pc, section_info, semaphore, task, section_qa_pairs,
      followup_pairs, followup_count, complexity_score, failed, raised,
      score_met, attempts, calls, results, completed_count, qa_pairs,
      progress, session_qa, call_vars, instance_vars, prompt_vars,
      session_vars>>

\* kernel_service.py line 129: InProcessRuntime() gives a new object
NewRuntime ==
    CHOOSE r \in Runtimes :
        /\ runtime_state[r] = "absent"
        /\ \A q \in Runtimes : q < r => runtime_state[q] # "absent"

\* kernel_service.py lines 196 and 126-130: single_agent_invoke awaits
\* start_runtime, which has no await of its own, and goes on to the await of
\* the agent's response
SingleAgentInvoke(c) ==
    /\ invoke[c] = "idle"
    /\ invoke' = [invoke EXCEPT ![c] = "invoking"]
    /\ IF runtime = NoRuntime
       THEN /\ runtime' = NewRuntime
            /\ runtime_state' = [runtime_state EXCEPT ![NewRuntime] = "started"]
       ELSE UNCHANGED <<runtime, runtime_state>>
    /\ UNCHANGED <<stopping, session_run_vars>>

\* kernel_service.py lines 198-226 and 132-135: the agent's response has
\* come or the call raised; the finally clause awaits stop_runtime, which
\* tests self.runtime and awaits stop_when_idle of that object
AgentReturns(c) ==
    /\ invoke[c] = "invoking"
    /\ IF runtime # NoRuntime
       THEN /\ invoke' = [invoke EXCEPT ![c] = "stopping"]
            /\ stopping' = [stopping EXCEPT ![c] = runtime]
       ELSE /\ invoke' = [invoke EXCEPT ![c] = "returned"]
            /\ UNCHANGED stopping
    /\ UNCHANGED <<runtime, runtime_state, session_run_vars>>

\* kernel_service.py lines 135-136: stop_when_idle has returned and
\* self.runtime is set to None, whatever it holds by now
StopWhenIdleReturns(c) ==
    /\ invoke[c] = "stopping"
    /\ invoke' = [invoke EXCEPT ![c] = "returned"]
    /\ stopping' = [stopping EXCEPT ![c] = NoRuntime]
    /\ runtime_state' = [runtime_state EXCEPT ![stopping[c]] = "stopped"]
    /\ runtime' = NoRuntime
    /\ UNCHANGED session_run_vars

OrchestratorNext ==
    \E c \in Calls :
        \/ SingleAgentInvoke(c)
        \/ AgentReturns(c)
        \/ StopWhenIdleReturns(c)

OrchestratorInit == EvaluatorInit

SessionInit == EvaluatorInit

\* ------------------------------ _start_processing, _start_text_processing
Handlers == {"_start_processing", "_start_text_processing"}

\* app.py lines 347-362: the settings the upload step collects
HandlerSettings ==
    {[qa_turns |-> turns, quick_mode |-> quick] :
        turns \in {5, 10}, quick \in BOOLEAN}

\* the steps inside the try of a handler
HandlerSteps == {"document", "summary", "qa", "report"}

\* what a step of a handler leaves alone
handler_run_vars == <<last_reset, manager_run_vars>>

\* app.py lines 494-499, 615-620: the except clause stops the processing
\* and calls unlock_settings, which returns or raises; the handler is left
ExceptClause(state, where, unlock_ok) ==
    /\ session_state' = stop_processing(state)
    /\ handler' = [handler EXCEPT
                      !.pc = "left", !.raised_at = where,
                      !.left_by = IF unlock_ok THEN "return"
                                  ELSE "exception"]

\* app.py lines 389-420, 510-541: start_processing, the settings are
\* stored, the agents are set up (an error there is only a warning)
EnterHandler(name, settings) ==
    /\ handler.pc \in {"idle", "left"}
    /\ handler.entries < MaxEntries
    /\ session_state' =
           set_processing_settings(
               set_qa_turns(start_processing(session_state),
                            settings.qa_turns),
               settings)
    /\ handler' = [name |-> name, pc |-> "document",
                   quick_mode |-> settings.quick_mode,
                   raised_at |-> "none", left_by |-> "none",
                   entries |-> handler.entries + 1]
    /\ UNCHANGED handler_run_vars

\* app.py lines 428-431, 549-552
DocumentProcessed ==
    /\ handler.pc = "document"
    /\ session_state' = set_document_data(session_state, DocumentData)
    /\ handler' = [handler EXCEPT !.pc = "summary"]
    /\ UNCHANGED handler_run_vars

\* app.py lines 444-446, 565-567
SummaryGenerated ==
    /\ handler.pc = "summary"
    /\ session_state' = set_summary(session_state, "summary")
    /\ handler' = [handler EXCEPT !.pc = "qa"]
    /\ UNCHANGED handler_run_vars

\* app.py lines 457, 578: the Q&A run has returned; what it found it has
\* stored in the session
QaRunReturned(result) ==
    /\ handler.pc = "qa"
    /\ session_state' =
           Assign(session_state,
                  [qa_pairs |->
                      add_qa_pair_with_followup(session_state.qa_pairs,
                                                result)])
    /\ handler' = [handler EXCEPT !.pc = "report"]
    /\ UNCHANGED handler_run_vars

\* app.py lines 468-488, 589-609: the report is stored, quick_mode is
\* stored and the processing is stopped
ReportGenerated ==
    /\ handler.pc = "report"
    /\ session_state' =
           stop_processing(
               Assign(set_final_report(session_state, "report"),
                      [quick_mode |-> handler.quick_mode]))
    /\ handler' = [handler EXCEPT !.pc = "completing"]
    /\ UNCHANGED handler_run_vars

\* mutant: the except clause leaves the processing flag alone
StepRaisesKeepsProcessing(unlock_ok) ==
    /\ handler.pc \in HandlerSteps
    /\ session_state' = session_state
    /\ handler' = [handler EXCEPT
                      !.pc = "left", !.raised_at = handler.pc,
                      !.left_by = IF unlock_ok THEN "return"
                                  ELSE "exception"]
    /\ UNCHANGED handler_run_vars

\* a step inside the try has raised
StepRaises(unlock_ok) ==
    /\ handler.pc \in HandlerSteps
    /\ ExceptClause(session_state, handler.pc, unlock_ok)
    /\ UNCHANGED handler_run_vars

\* app.py lines 489-494, 610-615: unlock_settings, set_step and the
\* rendering of the results; each of the calls returns or raises
Completed(unlock_ok, render_ok, except_unlock_ok) ==
    /\ handler.pc = "completing"
    /\ IF ~unlock_ok
       THEN ExceptClause(session_state, "unlock_settings", except_unlock_ok)
       ELSE IF ~render_ok
       THEN ExceptClause(set_step(session_state, "completed"),
                         "_render_results_step", except_unlock_ok)
       ELSE /\ session_state' = set_step(session_state, "completed")
            /\ handler' = [handler EXCEPT !.pc = "left",
                                          !.left_by = "return"]
    /\ UNCHANGED handler_run_vars

HandlerNext ==
    \/ \E name \in Handlers, settings \in HandlerSettings :
          EnterHandler(name, settings)
    \/ DocumentProcessed
    \/ SummaryGenerated
    \/ \E result \in {<<>>, <<MainPair(0)>>} : QaRunReturned(result)
    \/ ReportGenerated
    \/ \E unlock_ok \in BOOLEAN : StepRaises(unlock_ok)
    \/ \E unlock_ok, render_ok, except_unlock_ok \in BOOLEAN :
          Completed(unlock_ok, render_ok, except_unlock_ok)

HandlerInit == EvaluatorInit

HandlerSpec == HandlerInit /\ [][HandlerNext]_vars

SessionSpec == SessionInit /\ [][SessionNext]_vars

OrchestratorSpec == OrchestratorInit /\ [][OrchestratorNext]_vars

\* what a call of the evaluator leaves alone
orchestration_vars ==
    <<config, pc, section_info, semaphore, task, section_qa_pairs,
      followup_pairs, followup_count, complexity_score, failed, raised,
      score_met, attempts, calls, results, completed_count, qa_pairs,
      progress, session_qa, instance_vars, prompt_vars, aside_vars>>

\* lines 791-794: the await of single_agent_invoke ends with a response or
\* an error
ComplexityResponse(response) ==
    /\ complexity_response = NoResponse
    /\ complexity_response' = response
    /\ UNCHANGED <<orchestration_vars, evaluated_score>>

\* lines 797-807: parse, clamp or default, return
EvaluatorReturns ==
    /\ complexity_response # NoResponse
    /\ evaluated_score = NoScore
    /\ evaluated_score' = EvaluateAnswerComplexity(complexity_response)
    /\ UNCHANGED <<orchestration_vars, complexity_response>>

EvaluatorNext ==
    \/ \E response \in EvaluatorInputs : ComplexityResponse(response)
    \/ EvaluatorReturns

EvaluatorSpec == EvaluatorInit /\ [][EvaluatorNext]_vars

\* ------------------------------------------------------ claim vocabulary

Returned == pc = "returned"

\* the Gateway calls of section i that are in flight (0 or 1)
InFlight == {i \in Indices : task[i] \in CallKinds}

\* the main question or the main answer call of section i raised
MainExchangeRaised(i) == raised[i] \cap {"question", "answer"} # {}

\* positions of the returned list that belong to section i
EntriesOf(i) == {p \in 1 .. Len(qa_pairs) : qa_pairs[p].section = i}

\* ------------------------------------------------------------------ C1
\* C1 (as claimed): when the run has returned, the returned list has an
\* entry at every position i in 0..n-1 and that entry's section is i.
C1_OrderInvariant ==
    Returned =>
        \A i \in Indices :
            i + 1 <= Len(qa_pairs) /\ qa_pairs[i + 1].section = i

\* ------------------------------------------------------------------ C2
\* C2 (as claimed): when the run has returned, the returned list has exactly
\* n entries, one for every index 0..n-1, a section whose Gateway call
\* raised included.
C2_Completeness ==
    Returned =>
        /\ Len(qa_pairs) = sections
        /\ \A i \in Indices : Cardinality(EntriesOf(i)) = 1

\* ------------------------------------------------------------------ C3
\* C3: a Gateway failure in one section never fails, cancels or skips
\* another: every section is attempted at most once at any time and exactly
\* once by the time the run returns, a finished section is FAILED only if
\* its own main question or answer call raised, and a finished section whose
\* own main calls returned carries its main pair, which the returned list
\* then holds, whatever happened to the other sections.
C3_FailureIsolation ==
    /\ \A i \in Indices :
        /\ attempts[i] <= 1
        /\ task[i] = "done" =>
              /\ attempts[i] = 1
              /\ failed[i] <=> MainExchangeRaised(i)
              /\ ~MainExchangeRaised(i) =>
                    /\ Len(section_qa_pairs[i]) = 1
                    /\ section_qa_pairs[i][1].section = i
    /\ Returned =>
          \A i \in Indices :
              /\ task[i] = "done"
              /\ ~MainExchangeRaised(i) => EntriesOf(i) # {}

\* a run returned in which one section failed and its neighbours, one before
\* and one after it, are in the list
C3_Witness ==
    /\ Returned
    /\ \E i \in Indices :
          /\ failed[i]
          /\ i - 1 \in Indices /\ EntriesOf(i - 1) # {}
          /\ i + 1 \in Indices /\ EntriesOf(i + 1) # {}

\* ------------------------------------------------------------------ C4
\* C4: at every instant the number of Gateway calls in flight over all
\* sections is at most the semaphore size 3, the free slots are never
\* negative, and slots held plus slots free is the semaphore size: a
\* pending task is admitted only into a free slot.
C4_ConcurrencyBound ==
    /\ Cardinality(InFlight) <= SemaphoreSize
    /\ pc = "gather" =>
          /\ semaphore >= 0
          /\ semaphore + Cardinality(InFlight) = SemaphoreSize

\* three calls in flight, one of them a follow-up call, and a task waiting
C4_Witness ==
    /\ Cardinality(InFlight) = SemaphoreSize
    /\ \E i \in Indices : task[i] = "pending"
    /\ \E i \in Indices : task[i] = "followup_answer"
    /\ sections > SemaphoreSize

\* ------------------------------------------------------------------ C5
\* slots taken from the semaphore
SlotsHeld == SemaphoreSize - semaphore

\* the slots held are those of the tasks between admission and return
C5_SlotAccounting ==
    /\ pc = "gather" => SlotsHeld = Cardinality(InFlight)
    /\ Returned => SlotsHeld = 0

\* C5: a slot is held exactly while a task is between its admission and its
\* return, whatever the exit path (success, error in the main exchange,
\* error in a follow-up); and every run comes to its end with no slot held
\* and with every task, the queued ones included, admitted and finished.
C5_SlotRelease ==
    /\ []C5_SlotAccounting
    /\ <>(/\ Returned
          /\ SlotsHeld = 0
          /\ \A i \in Indices : attempts[i] = 1 /\ task[i] = "done")

\* the first three tasks took every slot and each left by an error while a
\* fourth was waiting; the fourth ran and the run has returned
C5_Witness ==
    /\ Returned
    /\ sections > SemaphoreSize
    /\ \A i \in Indices : i < SemaphoreSize => failed[i]
    /\ ~failed[SemaphoreSize]
    /\ SlotsHeld = 0

\* ------------------------------------------------------------------ C6
\* the calls the claim expects: completed = 1, 2, ..., n with total = n
AllProgressCalls ==
    [k \in 1 .. sections |-> [completed |-> k, total |-> sections]]

AtBatchPoint(call) ==
    /\ call.completed % BatchSize = 0 \/ call.completed = sections
    /\ ~MainExchangeRaised(call.completed - 1)

C7_RecordedOnCompletion ==
    completed_count = Cardinality({i \in Indices : task[i] = "done"})

\* ------------------------------------------------------------------ C8
\* follow-up exchanges that the result of section i carries
CarriedFollowups(i) ==
    LET pairs == section_qa_pairs[i] IN
    Cardinality({p \in 1 .. Len(pairs) : pairs[p].type = "followup"})
    + Cardinality({p \in 1 .. Len(pairs) :
                      pairs[p].followup_question # NoText})

\* every score the evaluator returned for section i met the threshold
AllScoresMet(i) == \A k \in 1 .. Len(score_met[i]) : score_met[i][k]

FollowupKinds == {"followup_question", "followup_answer", "followup_evaluate"}

\* C9: when follow-ups are enabled and the score of the main answer is
\* below the threshold, the section is finished and not FAILED, its result
\* is the main pair with no follow-up, and no follow-up question, answer or
\* evaluation call has been made for it.
C9_FollowupSkip ==
    enable_followup =>
        \A i \in Indices :
            (Len(score_met[i]) >= 1 /\ ~score_met[i][1]) =>
                /\ task[i] = "done"
                /\ ~failed[i]
                /\ section_qa_pairs[i] = <<MainPair(i)>>
                /\ followup_pairs[i] = <<>>
                /\ Len(score_met[i]) = 1
                /\ \A k \in FollowupKinds : calls[i][k] = 0

\* a section with a follow-up budget whose main answer scored below the
\* threshold has finished
C9_Witness ==
    /\ enable_followup
    /\ max_followups >= 1
    /\ \E i \in Indices :
          /\ task[i] = "done"
          /\ score_met[i] = <<FALSE>>
          /\ calls[i]["evaluate"] = 1

\* ----------------------------------------------------------------- C10
\* C10: when follow-ups are disabled no section is ever evaluated or in a
\* follow-up call, no evaluator or follow-up Gateway call is made, and a
\* section whose main exchange returned ends not FAILED with the main pair
\* alone as its result, whatever the threshold and max_followups are.
C10_FollowupDisabled ==
    ~enable_followup =>
        \A i \in Indices :
            /\ task[i] \notin FollowupKinds \cup {"evaluate"}
            /\ \A k \in FollowupKinds \cup {"evaluate"} : calls[i][k] = 0
            /\ score_met[i] = <<>>
            /\ followup_pairs[i] = <<>>
            /\ (task[i] = "done" /\ ~MainExchangeRaised(i)) =>
                  /\ ~failed[i]
                  /\ section_qa_pairs[i] = <<MainPair(i)>>

\* follow-ups disabled with a follow-up budget and a threshold that the
\* default score would meet: the section finished with its main pair
C10_Witness ==
    /\ ~enable_followup
    /\ max_followups = MaxFollowups
    /\ followup_threshold <= DefaultScore
    /\ \E i \in Indices :
          /\ task[i] = "done"
          /\ section_qa_pairs[i] = <<MainPair(i)>>
          /\ calls[i]["answer"] = 1

\* ----------------------------------------------------------------- C11
\* C11: whatever the Gateway gives the evaluator, the value it returns is in
\* [0.0, 1.0]; for a response that reads as a number it is that number
\* clamped: 0.0 for a number below 0, 1.0 for a number above 1, the number
\* itself otherwise.
C11_EvaluatorRange ==
    evaluated_score # NoScore =>
        /\ evaluated_score \in 0 .. 10
        /\ complexity_response.kind = "number" =>
              LET value == complexity_response.value IN
              /\ value < 0 => evaluated_score = 0
              /\ value > 10 => evaluated_score = 10
              /\ value \in 0 .. 10 => evaluated_score = value

\* the evaluator returned 1.0 for the response 1.1
C11_Witness ==
    /\ complexity_response = [kind |-> "number", value |-> 11]
    /\ evaluated_score = 10

\* ----------------------------------------------------------------- C12
\* the evaluator's Gateway call of section i raised
EvaluationRaised(i) == raised[i] \cap {"evaluate", "followup_evaluate"} # {}

\* the evaluator's call of section i ends on the response r
EvaluatorStep(i, r) == EvaluateReturns(i, r) \/ FollowupEvaluateReturns(i, r)

\* C12: when the evaluator's Gateway call raises or its response is not a
\* number, the evaluation counts as the score 0.5 (compared with the
\* threshold like any other score) and the section goes on or finishes not
\* FAILED with its main pair; a section whose evaluation raised is never
\* FAILED and its main pair is in the list the run returns.
C12_EvaluatorFailSoft ==
    /\ [][\A i \in Indices, r \in EvalResponses :
            (r.kind \in {"junk", "error"} /\ EvaluatorStep(i, r)) =>
                /\ score_met'[i] = Append(score_met[i], 5 >= followup_threshold)
                /\ ~failed'[i]
                /\ Len(section_qa_pairs'[i]) = 1
                /\ section_qa_pairs'[i][1].question = MainPair(i).question
                /\ section_qa_pairs'[i][1].answer = MainPair(i).answer]_vars
    /\ [](\A i \in Indices :
            EvaluationRaised(i) =>
                /\ ~failed[i]
                /\ Returned => EntriesOf(i) # {})

\* the evaluation of a main answer raised under the threshold 0.5: the
\* default score led to a follow-up and the run returned the section
C12_Witness ==
    /\ Returned
    /\ followup_threshold = 5
    /\ \E i \in Indices :
          /\ "evaluate" \in raised[i]
          /\ score_met[i][1]
          /\ Len(followup_pairs[i]) >= 1
          /\ ~failed[i]
          /\ EntriesOf(i) # {}

\* ----------------------------------------------------------------- C13
\* sections that were given a keyword
WithKeyword ==
    {p \in 1 .. Len(section_info) :
        section_info[p].target_keyword # NoKeyword}

\* C13: once the tasks are created, with k distinct keywords and n
\* sections, exactly min(k, n) sections have a keyword, no two sections
\* have the same keyword, the p-th section (in index order) has the p-th
\* keyword of the list, and every section after the k-th has none.
C13_KeywordExclusivity ==
    pc # "start" =>
        LET k == Len(target_keywords) IN
        /\ Len(section_info) = sections
        /\ Cardinality(WithKeyword) = Min(k, sections)
        /\ \A p, q \in WithKeyword :
              section_info[p].target_keyword = section_info[q].target_keyword
                  => p = q
        /\ \A p \in 1 .. sections :
              /\ section_info[p].section_index = p - 1
              /\ p <= k => section_info[p].target_keyword = target_keywords[p]
              /\ p > k => section_info[p].target_keyword = NoKeyword

\* the keywords alpha and beta over five sections: the first two sections
\* have them and the other three have none
C13_Witness ==
    /\ pc = "gather"
    /\ sections = 5
    /\ target_keywords = <<"alpha", "beta">>
    /\ section_info[1].target_keyword = "alpha"
    /\ section_info[2].target_keyword = "beta"
    /\ WithKeyword = {1, 2}

\* ----------------------------------------------------------------- C14
\* C14: in a run over an empty section list no Section Task exists, no
\* slot is taken and no Gateway call is made or in flight at any time, and
\* when the run has returned its list is empty, nothing was recorded in the
\* session and the progress sink was never called.
C14_EmptyInput ==
    sections = 0 =>
        /\ DOMAIN task = {}
        /\ DOMAIN calls = {}
        /\ InFlight = {}
        /\ semaphore \in {0, SemaphoreSize}
        /\ progress = <<>>
        /\ Returned =>
              /\ qa_pairs = <<>>
              /\ results = <<>>
              /\ session_qa = <<>>
              /\ completed_count = 0

\* a run over no sections has returned
C14_Witness ==
    /\ sections = 0
    /\ Returned
    /\ section_info = <<>>
    /\ qa_pairs = <<>>

\* ----------------------------------------------------------------- C15
\* the settings of the run are invalid
InvalidConfiguration ==
    \/ followup_threshold < 0
    \/ followup_threshold > 10
    \/ max_followups < 0

\* C15 (as claimed): a run started on an invalid configuration never
\* starts: no Section Task is created or admitted and no Gateway call is
\* made.
C15_ConfigValidation ==
    InvalidConfiguration =>
        /\ pc = "start"
        /\ \A i \in Indices : task[i] = "none" /\ calls[i] = NoCalls

\* ----------------------------------------------------------------- C16
\* C16: when every Gateway call returns or raises in the end, every run
\* returns, with one result per section: every task was admitted and came
\* to its end, whatever calls raised and whatever the scores were; and no
\* section ever makes more than max_followups follow-up calls of a kind.
C16_RunTermination ==
    /\ <>(Returned /\ Len(results) = sections)
    /\ [](\A i \in Indices : \A kind \in FollowupKinds :
              calls[i][kind] <= max_followups)

\* a run has returned in which a section used up the largest follow-up
\* budget, every score having met the threshold
C16_Witness ==
    /\ Returned
    /\ max_followups = MaxFollowups
    /\ \E i \in Indices :
          /\ AllScoresMet(i)
          /\ calls[i]["followup_evaluate"] = MaxFollowups

\* ----------------------------------------------------------------- C17
\* exchanges that an entry of the returned list holds
Exchanges(qa_pair) == IF qa_pair.followup_question = NoText THEN 1 ELSE 2

\* C17: in a second run of the same instance on the same sections and
\* settings, with a Gateway that answers each call as in the first run,
\* every section is given the keyword it was given in the first run, and
\* the returned list has the same length and, position by position, the
\* same section index and the same number of exchanges as the list of the
\* first run.
C17_IdempotentRerun ==
    /\ (run = 2 /\ pc # "start") => section_info = first_run.section_info
    /\ (run = 2 /\ Returned) =>
          /\ Len(qa_pairs) = Len(first_run.qa_pairs)
          /\ \A p \in 1 .. Len(qa_pairs) :
                /\ qa_pairs[p].section = first_run.qa_pairs[p].section
                /\ Exchanges(qa_pairs[p]) = Exchanges(first_run.qa_pairs[p])

\* a second run over two sections with keywords has returned: as in the
\* first run, section 0 failed and section 1 has a follow-up; the session
\* list holds the entries of both runs
C17_Witness ==
    /\ run = 2
    /\ Returned
    /\ sections = 2
    /\ target_keywords = <<"alpha", "beta">>
    /\ failed[0]
    /\ Len(qa_pairs) = 1
    /\ Exchanges(qa_pairs[1]) = 2
    /\ Len(session_qa) = 2

\* ----------------------------------------------------------------- C18
\* the Gateway calls whose failure the claim is about
ExchangeKinds ==
    {"question", "answer", "followup_question", "followup_answer"}

\* C18 (as claimed): a finished section one of whose question or answer
\* calls, main or follow-up, raised is FAILED, and its result holds every
\* exchange completed before: the main exchange if the main answer
\* returned, and every follow-up exchange the loop produced.
C18_PartialResultOnFailure ==
    \A i \in Indices :
        (task[i] = "done" /\ raised[i] \cap ExchangeKinds # {}) =>
            /\ failed[i]
            /\ (calls[i]["answer"] = 1 /\ "answer" \notin raised[i]) =>
                  /\ Len(section_qa_pairs[i]) >= 1
                  /\ section_qa_pairs[i][1].question = MainPair(i).question
            /\ CarriedFollowups(i) = Len(followup_pairs[i])

\* ----------------------------------------------------------------- C19
\* ordinals k >= 0 of the scores of section i that were below the threshold
ScoresBelow(i) == {k \in 0 .. Len(score_met[i]) - 1 : ~score_met[i][k + 1]}

\* the smallest member of a non-empty set of numbers
Least(S) == CHOOSE k \in S : \A j \in S : k <= j

C21_NoRetries ==
    \A i \in Indices :
        /\ calls[i]["question"] <= 1
        /\ calls[i]["answer"] <= 1
        /\ "question" \in raised[i] =>
              /\ task[i] = "done"
              /\ failed[i]
              /\ \A kind \in CallKinds \ {"question"} : calls[i][kind] = 0
        /\ "answer" \in raised[i] =>
              /\ task[i] = "done"
              /\ failed[i]
              /\ \A kind \in CallKinds \ {"question", "answer"} :
                    calls[i][kind] = 0
        /\ raised[i] \cap {"followup_question", "followup_answer"} # {} =>
              /\ task[i] = "done"
              /\ Cardinality(raised[i] \cap ExchangeKinds) = 1
              /\ calls[i]["followup_question"]
                     = Len(followup_pairs[i]) + 1

\* the main question call of a section raised while another section went
\* on: the section has finished FAILED after that one call
C21_Witness ==
    \E i, j \in Indices :
        /\ raised[i] = {"question"}
        /\ calls[i]["question"] = 1
        /\ failed[i]
        /\ task[j] = "answer"

\* ----------------------------------------------------------------- C22
\* C22: one follow-up question prompt is built for every follow-up
\* question call; the first holds the main answer of the section, the k-th
\* (k > 1) holds the answer of follow-up k-1, and a prompt holds nothing
\* but the template and that answer: the section text is not in it.
C22_FollowupInput ==
    \A i \in Indices :
        /\ Len(followup_prompts[i]) = calls[i]["followup_question"]
        /\ \A k \in 1 .. Len(followup_prompts[i]) :
              /\ DOMAIN followup_prompts[i][k] = {"template", "current_answer"}
              /\ followup_prompts[i][k].current_answer =
                     IF k = 1 THEN MainPair(i).answer
                     ELSE followup_pairs[i][k - 1].answer

\* a second follow-up question was asked from the answer of the first
C22_Witness ==
    \E i \in Indices :
        /\ Len(followup_prompts[i]) = 2
        /\ followup_prompts[i][1].current_answer = <<"answer", i>>
        /\ followup_prompts[i][2].current_answer = <<"followup_answer", i, 1>>
        /\ task[i] = "followup_question"

\* ----------------------------------------------------------------- C23
\* a follow-up call of section i has been made or a follow-up exists for it
HasFollowup(i) ==
    \/ task[i] \in FollowupKinds
    \/ \E kind \in FollowupKinds : calls[i][kind] > 0
    \/ followup_pairs[i] # <<>>
    \/ followup_prompts[i] # <<>>
    \/ CarriedFollowups(i) > 0

\* C23: a follow-up call is made, and a follow-up exists in a section's
\* result or in the returned list, only when follow-ups are enabled and the
\* score of the section's main answer met the threshold; the score an
\* entry with a follow-up carries is at least the threshold.
C23_FollowupPrecondition ==
    /\ \A i \in Indices :
          HasFollowup(i) =>
              /\ enable_followup
              /\ Len(score_met[i]) >= 1
              /\ score_met[i][1]
    /\ \A p \in 1 .. Len(qa_pairs) :
          qa_pairs[p].followup_question # NoText =>
              /\ enable_followup
              /\ score_met[qa_pairs[p].section][1]
              /\ qa_pairs[p].complexity_score >= followup_threshold

\* the returned list holds an entry with a follow-up whose main answer
\* scored 1.0 under the threshold 0.6, next to an entry without one
C23_Witness ==
    /\ Returned
    /\ enable_followup
    /\ followup_threshold = 6
    /\ \E p, q \in 1 .. Len(qa_pairs) :
          /\ qa_pairs[p].followup_question # NoText
          /\ qa_pairs[p].complexity_score = 10
          /\ qa_pairs[q].followup_question = NoText

\* ----------------------------------------------------------------- C24
\* C24: completed_count and the keyword assignment change only while no
\* Section Task is between its admission and its return; when the run has
\* returned completed_count is the number of sections, failed sections
\* included, and no keyword is assigned to two sections.
C24_SharedStateExclusion ==
    /\ [][(completed_count' # completed_count
              \/ section_info' # section_info) => InFlight = {}]_vars
    /\ [](Returned =>
            /\ completed_count = sections
            /\ \A p, q \in WithKeyword :
                  section_info[p].target_keyword
                      = section_info[q].target_keyword => p = q)

\* a run over five sections with two keywords has returned; two sections
\* failed and all five were counted
C24_Witness ==
    /\ Returned
    /\ sections = 5
    /\ Cardinality(WithKeyword) = 2
    /\ Cardinality({i \in Indices : failed[i]}) = 2
    /\ completed_count = 5

\* ----------------------------------------------------------------- C25
\* the main questions the Gateway has returned so far in this run
QuestionsAsked ==
    {MainPair(j).question :
        j \in {k \in Indices : /\ calls[k]["question"] > 0
                                /\ task[k] # "question"
                                /\ "question" \notin raised[k]}}

\* the questions a prompt lists
ListedQuestions(prompt) ==
    {prompt.previous_questions[p] :
        p \in 1 .. Len(prompt.previous_questions)}

\* C25: when the prompt of a section's main question is built it holds the
\* section's text, the section's target keyword and the questions already
\* asked earlier in the same run.
C25_PriorQuestionsInPrompt ==
    [][\A i \in Indices :
          (task[i] = "pending" /\ task'[i] = "question") =>
              /\ question_prompt'[i].current_section_content = i
              /\ question_prompt'[i].target_keyword
                     = section_info[i + 1].target_keyword
              /\ ListedQuestions(question_prompt'[i]) = QuestionsAsked]_vars

\* ----------------------------------------------------------------- C26
\* C26: the returned list holds at most one entry per section, every
\* entry's section is one of 0..n-1, and the sections are strictly
\* increasing along the list, whatever the order in which the tasks
\* finished and whichever sections failed.
C26_OneEntryPerSectionInOrder ==
    /\ \A i \in Indices : Cardinality(EntriesOf(i)) <= 1
    /\ \A p \in 1 .. Len(qa_pairs) :
          /\ qa_pairs[p].section \in 0 .. sections - 1
          /\ \A q \in 1 .. Len(qa_pairs) :
                p < q => qa_pairs[p].section < qa_pairs[q].section

\* a run over six sections returned the entries of sections 1, 3 and 4
\* only, the other three sections having failed
C26_Witness ==
    /\ Returned
    /\ sections = 6
    /\ Len(qa_pairs) = 3
    /\ qa_pairs[1].section = 1
    /\ qa_pairs[2].section = 3
    /\ qa_pairs[3].section = 4
    /\ \A i \in {0, 2, 5} : failed[i]

\* ----------------------------------------------------------------- C27
\* the texts an entry holds
TextsOf(qa_pair) ==
    {qa_pair.question, qa_pair.answer,
     qa_pair.followup_question, qa_pair.followup_answer}

\* C27: the result of a finished section whose follow-up loop produced
\* exchanges is its main pair with the first exchange attached as
\* followup_question and followup_answer together with a complexity
\* score, and without them otherwise; the exchanges after the first are in
\* no entry of a section result or of the returned list, and no entry is
\* of type 'followup'.
C27_FirstFollowupOnly ==
    /\ \A i \in Indices :
          (task[i] = "done" /\ ~failed[i]) =>
              /\ Len(section_qa_pairs[i]) = 1
              /\ LET entry == section_qa_pairs[i][1]
                     fps == followup_pairs[i]
                 IN  /\ entry.type = "main"
                     /\ entry.question = MainPair(i).question
                     /\ entry.answer = MainPair(i).answer
                     /\ fps = <<>> =>
                           /\ entry.followup_question = NoText
                           /\ entry.followup_answer = NoText
                           /\ entry.complexity_score = NoScore
                     /\ fps # <<>> =>
                           /\ entry.followup_question = fps[1].question
                           /\ entry.followup_answer = fps[1].answer
                           /\ entry.complexity_score # NoScore
                     /\ \A k \in 2 .. Len(fps) :
                           {fps[k].question, fps[k].answer}
                               \cap TextsOf(entry) = {}
    /\ \A p \in 1 .. Len(qa_pairs) :
          /\ qa_pairs[p].type = "main"
          /\ qa_pairs[p] = section_qa_pairs[qa_pairs[p].section][1]
          /\ \A i \in Indices :
                \A k \in 2 .. Len(followup_pairs[i]) :
                    {followup_pairs[i][k].question,
                     followup_pairs[i][k].answer}
                        \cap TextsOf(qa_pairs[p]) = {}

\* the returned list holds the entry of a section whose loop produced
\* three exchanges, with the first of them attached
C27_Witness ==
    /\ Returned
    /\ \E p \in 1 .. Len(qa_pairs) :
          LET i == qa_pairs[p].section IN
          /\ Len(followup_pairs[i]) = 3
          /\ qa_pairs[p].followup_question = followup_pairs[i][1].question
          /\ qa_pairs[p].followup_answer = followup_pairs[i][1].answer

\* ----------------------------------------------------------------- C28
\* the calls of single_agent_invoke that have started and not yet returned
CallsInFlight == {c \in Calls : invoke[c] \in {"invoking", "stopping"}}

\* C28: on one shared AgentOrchestrator, whenever no call of
\* single_agent_invoke is in flight self.runtime is None and every runtime
\* that start_runtime created has been stopped, and self.runtime never
\* stops holding a runtime that has not been stopped.
C28_RuntimeStopped ==
    /\ [](CallsInFlight = {} =>
            /\ runtime = NoRuntime
            /\ \A r \in Runtimes : runtime_state[r] # "started")
    /\ [][\A r \in Runtimes :
            (runtime = r /\ runtime' # r) => runtime_state'[r] = "stopped"]_vars

\* ----------------------------------------------------------------- C30
\* C30: right after reset_session, whatever setters were called before it,
\* every getter returns what it returns on a newly initialized session:
\* step 'upload', processing False, no Q&A pairs, empty summary and final
\* report, qa_completed False, qa_turns 10.
C30_ResetRestoresFresh ==
    last_reset.called =>
        /\ Getters(session_state) = Getters(initialize_session(EmptySession))
        /\ Getters(session_state).get_step = "upload"
        /\ Getters(session_state).is_processing = FALSE
        /\ Getters(session_state).get_qa_pairs = <<>>
        /\ Getters(session_state).get_summary = ""
        /\ Getters(session_state).get_final_report = ""
        /\ Getters(session_state).is_qa_completed = FALSE
        /\ Getters(session_state).get_qa_turns = 10

\* reset_session has just run on a session that was processing, with a
\* document, a summary, a Q&A pair, a final report, the step set by hand,
\* the second tab selected and 5 turns, and has left 'initialized' alone
C30_Witness ==
    /\ last_reset.called
    /\ DOMAIN InitialValues \subseteq DOMAIN last_reset.found
    /\ last_reset.found.processing
    /\ last_reset.found.document_uploaded
    /\ last_reset.found.summary = "summary"
    /\ Len(last_reset.found.qa_pairs) >= 1
    /\ last_reset.found.final_report = "report"
    /\ last_reset.found.current_step = "qa"
    /\ last_reset.found.progress_text = "text"
    /\ last_reset.found.selected_tab = 1
    /\ last_reset.found.qa_turns = 5
    /\ DOMAIN session_state = {"initialized"}

\* ----------------------------------------------------------------- C29
\* C29: when _start_processing or _start_text_processing has been left, by
\* its return or by an error of any of its steps, the processing flag of
\* the session is False, and the flag is True only while a handler is
\* between its start_processing call and its exit.
C29_ProcessingFlagCleared ==
    /\ handler.pc \in {"idle", "left"} =>
          ~Getters(session_state).is_processing
    /\ Getters(session_state).is_processing => handler.pc \in HandlerSteps

\* the text handler was left because its Q&A run raised, after an earlier
\* entry, and the flag is False
C29_Witness ==
    /\ handler.name = "_start_text_processing"
    /\ handler.pc = "left"
    /\ handler.raised_at = "qa"
    /\ handler.entries = 2
    /\ ~Getters(session_state).is_processing
    /\ Getters(session_state).get_step = "processing"

====
